---- MODULE Spec2Model ----
(***************************************************************************)
(* Model of buscador_3M.py: a Streamlit script that loads a sheet per      *)
(* distribution centre through a cached loader, filters its rows by the    *)
(* keywords of a query and renders every kept row with a Code128 barcode.  *)
(* One run of the script is one pass  load -> branch -> search -> render.  *)
(* Text is modelled as a sequence of one-character strings.                *)
(* Display-only columns (ABASSU, ABSER#, PLDESC) are carried by no         *)
(* decision of the script and are left out of the rows.                    *)
(***************************************************************************)
EXTENDS Integers, Sequences, FiniteSets, TLC

VARIABLES selected_location, cache, df, search_query, keywords, result_df,
          screen, pc, pos, ran_body, failed

vars == <<selected_location, cache, df, search_query, keywords, result_df,
          screen, pc, pos, ran_body, failed>>

\* ---------------------------------------------------------------- bounds
MaxRows == 2
MaxQueryLen == 3

\* ------------------------------------------------------------ text model
\* A missing cell (pandas NaN); it is not text.
NaN == <<"<NaN>">>

\* Characters the user may type.
QueryChars == {"M", "p", " "}

Whitespace == {" "}

\* str.lower on one character
LowerChar(c) == CASE c = "M" -> "m"
                  [] c = "P" -> "p"
                  [] c = "A" -> "a"
                  [] OTHER -> c

\* str.lower on a Python string
Lower(s) == [k \in 1..Len(s) |-> LowerChar(s[k])]

\* str.split() without arguments: runs of whitespace separate the tokens and
\* no empty token is produced.
RECURSIVE SplitFrom(_, _, _)
SplitFrom(s, k, cur) ==
    IF k > Len(s)
    THEN IF cur = <<>> THEN <<>> ELSE <<cur>>
    ELSE IF s[k] \in Whitespace
         THEN (IF cur = <<>> THEN <<>> ELSE <<cur>>) \o SplitFrom(s, k + 1, <<>>)
         ELSE SplitFrom(s, k + 1, Append(cur, s[k]))

Split(s) == SplitFrom(s, 1, <<>>)

\* Python's  keyword in x  on two strings
Contains(keyword, x) ==
    \E k \in 0..(Len(x) - Len(keyword)) : SubSeq(x, k + 1, k + Len(keyword)) = keyword

SeqsUpTo(S, n) == UNION {[1..k -> S] : k \in 0..n}

\* ------------------------------------------------------------- locations
locations == ("Santa Isabel" :> "1299544230") @@ ("Enea" :> "1200217273")

Gids == {locations[l] : l \in DOMAIN locations}

selected_gid == locations[selected_location]

\* ------------------------------------------------------------ sheet data
\* The character standing for a letter outside the Code128 character sets.
EnyeChar == "U+00F1"

\* Rows the remote sheet may hold, as read_csv delivers them: every cell is
\* text or missing (an empty CSV field is read as NaN, never as "").
RawRows == { [Folio |-> <<"1", "A">>, ABDESC |-> <<"M", "p">>],
             [Folio |-> <<EnyeChar>>, ABDESC |-> <<"M">>],
             [Folio |-> NaN,          ABDESC |-> NaN] }

\* What one fetch of the CSV export can give: an exception (network error,
\* missing column, parse error) or the parsed rows.
FetchFailure == [ok |-> FALSE, rows |-> <<>>]

\* Sheets of at most MaxRows rows; a folio identifies its row, so a sheet
\* holds a row at most once.
Sheets == {r \in SeqsUpTo(RawRows, MaxRows) :
             \A i, j \in 1..Len(r) : i # j => r[i] # r[j]}

FetchOutcomes == {FetchFailure} \cup {[ok |-> TRUE, rows |-> r] : r \in Sheets}

\* Series.str.lower(): missing stays missing
StrLower(v) == IF v = NaN THEN NaN ELSE Lower(v)

\* Series.fillna(value)
FillNa(v, value) == IF v = NaN THEN value ELSE v

SearchColNoFill(abdesc) == StrLower(abdesc)

\* df['search_col'] = df['ABDESC'].str.lower().fillna('')
SearchCol(abdesc) == FillNa(StrLower(abdesc), <<>>)

\* pd.DataFrame(): no columns, no rows.  source records the gid of the URL
\* the frame was requested from.
EmptyDataFrame(gid) == [cols |-> FALSE, source |-> gid, rows |-> <<>>]

\* The value of df before load_data has returned in this run.
NoFrame == [cols |-> FALSE, source |-> "", rows |-> <<>>]

\* read_csv(...) followed by the derivation of search_col; the index of
\* the frame is the default RangeIndex 0..n-1.
ParsedFrame(gid, raw) ==
    [cols |-> TRUE, source |-> gid,
     rows |-> [k \in 1..Len(raw) |->
                 [index |-> k - 1, Folio |-> raw[k].Folio, ABDESC |-> raw[k].ABDESC,
                  search_col |-> SearchCol(raw[k].ABDESC)]]]

\* Elements written to the page; arg is a row index label, a count, or 0.
El(name, arg) == [el |-> name, arg |-> arg]

LoadErrorMessages == <<El("error_load", 0), El("info_verify", 0)>>

LoadDataBodyRaises(gid, outcome) ==
    IF outcome.ok
    THEN [raised |-> FALSE, value |-> ParsedFrame(gid, outcome.rows), messages |-> <<>>]
    ELSE [raised |-> TRUE, value |-> EmptyDataFrame(gid), messages |-> <<>>]

\* The body of load_data: try: read and derive; except Exception: st.error,
\* st.info, return pd.DataFrame().  messages are the elements the body wrote.
LoadDataBody(gid, outcome) ==
    IF outcome.ok
    THEN [raised |-> FALSE, value |-> ParsedFrame(gid, outcome.rows), messages |-> <<>>]
    ELSE [raised |-> FALSE, value |-> EmptyDataFrame(gid), messages |-> LoadErrorMessages]

\* ----------------------------------------------------------------- cache
\* st.cache_data keeps, per key, the returned value and the elements the
\* function wrote while it ran; a hit returns a copy of the value and
\* replays those elements without running the body.
NoEntry == [present |-> FALSE, value |-> NoFrame, messages |-> <<>>]

CacheKeyShared(gid) == "1299544230"

\* The key of a cached call is its argument, the gid.
CacheKey(gid) == gid

CacheStoreSuccessOnly(c, key, res) ==
    IF res.value.cols
    THEN [c EXCEPT ![key] = [present |-> TRUE, value |-> res.value, messages |-> res.messages]]
    ELSE c

\* The cache writes the result of a completed call under its key.
CacheStore(c, key, res) ==
    [c EXCEPT ![key] = [present |-> TRUE, value |-> res.value, messages |-> res.messages]]

\* --------------------------------------------------------------- barcode
\* str(folio); str(nan) is "nan"
Str(folio) == IF folio = NaN THEN <<"n", "a", "n">> ELSE folio

\* The characters of the Code128 sets that occur in the model.
Code128Chars == {"1", "A", "n", "a"}

\* Code128(code, ...) raises on a character outside its sets.
Code128Valid(code) == \A k \in 1..Len(code) : code[k] \in Code128Chars

generate_barcode_raises(folio) ==
    [raised |-> ~Code128Valid(Str(folio)), image |-> Code128Valid(Str(folio))]

\* generate_barcode: a buffer (image TRUE) or, on any exception, None.
generate_barcode(folio) ==
    [raised |-> FALSE, image |-> Code128Valid(Str(folio))]

\* ---------------------------------------------------------------- filter
RowMatchesAny(x, kws) == \E k \in 1..Len(kws) : Contains(kws[k], x)

\* lambda x: all(keyword in x for keyword in keywords)
RowMatches(x, kws) == \A k \in 1..Len(kws) : Contains(kws[k], x)

RECURSIVE SelectRows(_, _)
SelectRows(rows, kws) ==
    IF rows = <<>> THEN <<>>
    ELSE (IF RowMatches(Head(rows).search_col, kws) THEN <<Head(rows)>> ELSE <<>>)
         \o SelectRows(Tail(rows), kws)

\* df[mask]: a new frame with the rows whose mask is true, in order, each
\* keeping its index label.
Filter(frame, kws) == [cols |-> frame.cols, source |-> frame.source,
                       rows |-> SelectRows(frame.rows, kws)]

DfEmptyNoColumns(frame) == ~frame.cols

\* DataFrame.empty
DfEmpty(frame) == Len(frame.rows) = 0

TruthyAlways(s) == TRUE

\* truth value of a Python string: non-empty
Truthy(s) == s # <<>>

FrameAfterFilterRebound(frame, result) == result

\* The frame bound to df once the filter expression has been evaluated:
\* boolean indexing builds a new frame and df is not assigned.
FrameAfterFilter(frame, result) == frame

\* --------------------------------------------------------------- queries
\* Texts the user may type into the search box.
Queries == SeqsUpTo(QueryChars, MaxQueryLen)

\* ----------------------------------------------------------------- state
\* The process has started and no run has happened: the cache is empty and
\* the selectbox shows its first option.
Init ==
    /\ selected_location = "Santa Isabel"
    /\ cache = [g \in Gids |-> NoEntry]
    /\ df = NoFrame
    /\ search_query = <<>>
    /\ keywords = <<>>
    /\ result_df = NoFrame
    /\ screen = <<>>
    /\ pc = "idle"
    /\ pos = 0
    /\ ran_body = FALSE
    /\ failed = {}

\* A user interaction starts a run of the script from the top: the page is
\* rebuilt and the selectbox gives the chosen location.
StartRun(loc) ==
    /\ pc \in {"idle", "done", "crashed"}
    /\ selected_location' = loc
    /\ df' = NoFrame
    /\ search_query' = <<>>
    /\ keywords' = <<>>
    /\ result_df' = NoFrame
    /\ screen' = <<>>
    /\ pos' = 0
    /\ ran_body' = FALSE
    /\ pc' = "load"
    /\ UNCHANGED <<cache, failed>>

\* df = load_data(selected_gid), the key is cached: the stored value is
\* returned and the stored elements are replayed; the body does not run.
LoadDataHit ==
    /\ pc = "load"
    /\ cache[CacheKey(selected_gid)].present
    /\ df' = cache[CacheKey(selected_gid)].value
    /\ screen' = screen \o cache[CacheKey(selected_gid)].messages
    /\ ran_body' = FALSE
    /\ pc' = "branch"
    /\ UNCHANGED <<selected_location, cache, search_query, keywords, result_df, pos, failed>>

\* df = load_data(selected_gid), the key is not cached: the body runs, fetches
\* the sheet and its result is stored.  An exception leaving the body would
\* end the run and store nothing.
LoadDataMiss(outcome) ==
    /\ pc = "load"
    /\ ~cache[CacheKey(selected_gid)].present
    /\ LET res == LoadDataBody(selected_gid, outcome)
       IN  IF res.raised
           THEN /\ pc' = "crashed"
                /\ screen' = Append(screen, El("exception", 0))
                /\ UNCHANGED <<cache, df>>
           ELSE /\ pc' = "branch"
                /\ screen' = screen \o res.messages
                /\ cache' = CacheStore(cache, CacheKey(selected_gid), res)
                /\ df' = res.value
    /\ ran_body' = TRUE
    /\ failed' = IF outcome.ok THEN failed ELSE failed \cup {selected_gid}
    /\ UNCHANGED <<selected_location, search_query, keywords, result_df, pos>>

\* else branch of  if not df.empty : the could-not-load warning.
ShowLoadWarning ==
    /\ pc = "branch"
    /\ DfEmpty(df)
    /\ screen' = Append(screen, El("warning_noload", 0))
    /\ pc' = "done"
    /\ UNCHANGED <<selected_location, cache, df, search_query, keywords, result_df, pos, ran_body, failed>>

\* if not df.empty : the search box is shown and gives the typed text.
TextInput(q) ==
    /\ pc = "branch"
    /\ ~DfEmpty(df)
    /\ search_query' = q
    /\ screen' = Append(screen, El("text_input", 0))
    /\ pc' = "search"
    /\ UNCHANGED <<selected_location, cache, df, keywords, result_df, pos, ran_body, failed>>

\* x.apply(lambda ...) evaluates  keyword in x  on every row; on a value that
\* is not text (NaN is a float) it raises TypeError, unless there is no
\* keyword to test.
FilterRaises(frame, kws) ==
    /\ kws # <<>>
    /\ \E k \in 1..Len(frame.rows) : frame.rows[k].search_col = NaN

\* if search_query: tokenize, filter, show the count, then either enter the
\* rendering loop or warn that nothing was found; else: the waiting notice.
Search ==
    /\ pc = "search"
    /\ IF Truthy(search_query)
       THEN LET kws == Split(Lower(search_query))
                res == Filter(df, kws)
            IN  IF FilterRaises(df, kws)
                THEN /\ keywords' = kws
                     /\ screen' = Append(screen, El("exception", 0))
                     /\ pc' = "crashed"
                     /\ UNCHANGED <<df, result_df, pos>>
                ELSE /\ keywords' = kws
                     /\ result_df' = res
                     /\ df' = FrameAfterFilter(df, res)
                     /\ IF ~DfEmpty(res)
                        THEN /\ screen' = Append(screen, El("subheader", Len(res.rows)))
                             /\ pos' = 1
                             /\ pc' = "render"
                        ELSE /\ screen' = screen \o <<El("subheader", Len(res.rows)),
                                                      El("warning_noresults", 0)>>
                             /\ pos' = pos
                             /\ pc' = "done"
       ELSE /\ screen' = Append(screen, El("info_waiting", 0))
            /\ pc' = "done"
            /\ UNCHANGED <<df, keywords, result_df, pos>>
    /\ UNCHANGED <<selected_location, cache, search_query, ran_body, failed>>

\* One iteration of  for index, row in result_df.iterrows() : the expander
\* with the row's fields, then the barcode image or the barcode warning.  An
\* exception leaving generate_barcode would end the run inside the loop.
RenderRow ==
    /\ pc = "render"
    /\ LET row == result_df.rows[pos]
           barcode_image == generate_barcode(row.Folio)
       IN  IF barcode_image.raised
           THEN /\ screen' = screen \o <<El("expander", row.index), El("fields", row.index),
                                         El("exception", row.index)>>
                /\ pc' = "crashed"
                /\ pos' = pos
           ELSE /\ screen' = screen \o <<El("expander", row.index), El("fields", row.index),
                                         El(IF barcode_image.image THEN "image" ELSE "warning_barcode",
                                            row.index)>>
                /\ pos' = pos + 1
                /\ pc' = IF pos = Len(result_df.rows) THEN "done" ELSE "render"
    /\ UNCHANGED <<selected_location, cache, df, search_query, keywords, result_df, ran_body, failed>>

Next ==
    \/ \E loc \in DOMAIN locations : StartRun(loc)
    \/ LoadDataHit
    \/ \E outcome \in FetchOutcomes : LoadDataMiss(outcome)
    \/ ShowLoadWarning
    \/ \E q \in Queries : TextInput(q)
    \/ Search
    \/ RenderRow

Spec == Init /\ [][Next]_vars

\* =================================================================== claims
\* Helpers of the statements.  They are written from the claims' words and
\* use none of the operators of the script above.

Has(name) == \E k \in 1..Len(screen) : screen[k].el = name

Elements(name) == SelectSeq(screen, LAMBDA e : e.el = name)

\* The filter has run in this run (the count line is on the page).
FilterRan == Has("subheader")

\* s[a..b] is a maximal run of non-blank characters of s
IsTokenAt(s, a, b) ==
    /\ 1 <= a /\ a <= b /\ b <= Len(s)
    /\ \A k \in a..b : s[k] # " "
    /\ (a = 1 \/ s[a - 1] = " ")
    /\ (b = Len(s) \/ s[b + 1] = " ")

LowerOf(s) == [k \in 1..Len(s) |->
                 IF s[k] = "M" THEN "m" ELSE IF s[k] = "P" THEN "p" ELSE
                 IF s[k] = "A" THEN "a" ELSE s[k]]

TokensOf(query) ==
    {SubSeq(LowerOf(query), p[1], p[2]) :
        p \in {q \in (1..Len(query)) \X (1..Len(query)) : IsTokenAt(LowerOf(query), q[1], q[2])}}

IsSubstring(t, d) ==
    \E a \in 1..(Len(d) - Len(t) + 1) : \A k \in 1..Len(t) : d[a + k - 1] = t[k]

\* every token of the query occurs in the row's lowercased description; a
\* missing description contains no token
HasAllTokens(row, query) ==
    \A t \in TokensOf(query) : row.ABDESC # NaN /\ IsSubstring(t, LowerOf(row.ABDESC))

Kept(row) == \E j \in 1..Len(result_df.rows) : result_df.rows[j] = row

\* C1: whenever the filter has run on a query with at least one token, a row
\* of the loaded table is among the returned rows if and only if every
\* lowercased token of the query is a substring of its lowercased description.
C1_FilterIsAndSubstring ==
    (FilterRan /\ TokensOf(search_query) # {}) =>
        \A k \in 1..Len(cache[selected_gid].value.rows) :
            Kept(cache[selected_gid].value.rows[k])
                <=> HasAllTokens(cache[selected_gid].value.rows[k], search_query)

\* C1 witness: a two-token query kept one row of a two-row table and dropped
\* the other.
C1_Witness ==
    /\ pc = "done" /\ FilterRan
    /\ Cardinality(TokensOf(search_query)) = 2
    /\ Len(df.rows) = 2 /\ Len(result_df.rows) = 1

\* C2: a run on a non-empty table with the empty query ends in the
\* awaiting-input state: the filter has not run, no row and no barcode is on
\* the page.
C2_EmptyQueryAwaitsInput ==
    (pc \in {"render", "done", "crashed"} /\ Len(df.rows) > 0 /\ search_query = <<>>) =>
        /\ pc = "done"
        /\ screen[Len(screen)].el = "info_waiting"
        /\ ~FilterRan
        /\ ~Has("expander") /\ ~Has("fields") /\ ~Has("image") /\ ~Has("warning_barcode")
        /\ result_df = NoFrame /\ keywords = <<>>

\* C2 witness: a finished run on a non-empty table with the empty query.
C2_Witness == pc = "done" /\ Len(df.rows) > 0 /\ search_query = <<>>

\* The fetch of the running run failed: the body of load_data ran in this
\* run and the selected location is one whose fetch has failed.
FetchFailedNow == ran_body /\ selected_gid \in failed

\* C3: load_data never raises; when its fetch fails the error message is on
\* the page, the returned table is empty, and the run goes to the
\* could-not-load warning without search box, filter or rendered row.
C3_LoadFailureDegrades ==
    /\ ~(pc = "crashed" /\ ~Has("text_input"))
    /\ (FetchFailedNow /\ pc # "load") =>
        /\ pc \in {"branch", "done"}
        /\ df.rows = <<>> /\ ~df.cols
        /\ Has("error_load")
        /\ ~Has("text_input") /\ ~FilterRan /\ ~Has("expander") /\ ~Has("fields")
        /\ (pc = "done" => screen[Len(screen)].el = "warning_noload")

\* C3 witness: a run whose fetch failed has finished.
C3_Witness == pc = "done" /\ FetchFailedNow /\ Has("error_load")

\* The part of the page written by the rendering loop.
Rendered == SelectSeq(screen, LAMBDA e : e.el \in {"expander", "fields", "image",
                                                   "warning_barcode", "exception"})

\* C4: generate_barcode never raises, and the loop renders every matched row
\* it has passed with its fields and exactly one of a barcode image or a
\* barcode warning, whatever happened for the rows before it; at the end the
\* number of rendered rows is the number of matched rows.
C4_BarcodeFailureIsPerRow ==
    /\ ~Has("exception")
    /\ (FilterRan /\ pc \in {"render", "done"}) =>
        LET n == IF pc = "render" THEN pos - 1 ELSE Len(result_df.rows)
        IN  /\ Len(Rendered) = 3 * n
            /\ \A j \in 1..n :
                 /\ Rendered[3 * j - 2] = El("expander", result_df.rows[j].index)
                 /\ Rendered[3 * j - 1] = El("fields", result_df.rows[j].index)
                 /\ Rendered[3 * j].el \in {"image", "warning_barcode"}
                 /\ Rendered[3 * j].arg = result_df.rows[j].index
            /\ Len(Elements("expander")) = n
            /\ Len(Elements("image")) + Len(Elements("warning_barcode")) = n

\* C4 witness: a finished result list in which the barcode of the first row
\* failed and the barcode of the second row was drawn.
C4_Witness ==
    /\ pc = "done" /\ Len(result_df.rows) = 2 /\ Len(Rendered) = 6
    /\ Rendered[3].el = "warning_barcode" /\ Rendered[6].el = "image"

\* C5: a step changes the cache only at the gid of the selected location and
\* only by filling an absent entry with a table fetched for that gid; every
\* entry holds a table fetched for its own gid, and the table of a run is the
\* one fetched for the selected location.
C5_CachePerLocation ==
    /\ [](\A g \in Gids : cache[g].present => cache[g].value.source = g)
    /\ [](pc \in {"branch", "search", "render", "done"} => df.source = selected_gid)
    /\ [][\A g \in Gids : cache'[g] # cache[g] =>
            /\ g = selected_gid
            /\ ~cache[g].present /\ cache'[g].present
            /\ ran_body']_vars
    /\ [][(pc = "load" /\ pc' # "load") => (ran_body' <=> ~cache[selected_gid].present)]_vars

\* C5 witness: both locations are cached with different tables and a run for
\* the second location was served from the cache.
C5_Witness ==
    /\ pc = "done" /\ selected_location = "Enea" /\ ~ran_body
    /\ \A g \in Gids : cache[g].present
    /\ cache["1299544230"].value.rows # cache["1200217273"].value.rows
    /\ df = cache["1200217273"].value

RowsInUse == {df.rows[k] : k \in 1..Len(df.rows)}
               \cup UNION {{cache[g].value.rows[k] : k \in 1..Len(cache[g].value.rows)} : g \in Gids}

\* C6: every row of a loaded table has a search value that is text: the
\* lowercased description, or the empty text when the description is
\* missing; the filter never fails, and a row without description is never
\* returned for a query with at least one token.
C6_SearchColumnNeverMissing ==
    /\ \A row \in RowsInUse :
         /\ row.search_col # NaN
         /\ row.ABDESC = NaN => row.search_col = <<>>
         /\ row.ABDESC # NaN => row.search_col = LowerOf(row.ABDESC)
    /\ ~(pc = "crashed" /\ Has("text_input") /\ ~FilterRan)
    /\ (FilterRan /\ TokensOf(search_query) # {}) =>
         \A j \in 1..Len(result_df.rows) : result_df.rows[j].ABDESC # NaN

\* C6 witness: the filter has run with a token on a table holding a row
\* without description and has returned another row.
C6_Witness ==
    /\ pc = "done" /\ FilterRan /\ TokensOf(search_query) # {}
    /\ \E k \in 1..Len(df.rows) : df.rows[k].ABDESC = NaN
    /\ Len(result_df.rows) = 1

\* C7: the step that runs the filter leaves the loaded table and every cache
\* entry as they were, a filled cache entry never changes, and the returned
\* rows are the filter of the cached table of the selected location by the
\* query, so the same query on the same location gives the same rows in the
\* same order in every run.
C7_SearchIsReadOnly ==
    /\ [][pc = "search" => (df' = df /\ cache' = cache)]_vars
    /\ [][\A g \in Gids : cache[g].present => cache'[g] = cache[g]]_vars
    /\ [](FilterRan => /\ df = cache[selected_gid].value
                       /\ result_df = Filter(cache[selected_gid].value,
                                             Split(Lower(search_query))))

\* C7 witness: a run served from the cache has filtered and dropped a row,
\* and the loaded table still has all its rows.
C7_Witness ==
    /\ pc = "done" /\ FilterRan /\ ~ran_body
    /\ Len(result_df.rows) = 1 /\ Len(df.rows) = 2
    /\ df = cache[selected_gid].value

\* C8: whenever the result list is shown, the query has at least one token.
C8_NoTokensNoResultList ==
    Has("expander") => TokensOf(search_query) # {}

\* The rows of the loaded table that contain every token of the query.
MatchedPositions == {k \in 1..Len(df.rows) : HasAllTokens(df.rows[k], search_query)}

\* C9: a finished run shows exactly one of the could-not-load warning, the
\* waiting notice, the no-results warning and the result list; each is
\* shown exactly in its case; in the result list the count is the number of
\* matched rows and the rows appear once each in table order.
C9_FourOutcomes ==
    pc = "done" =>
        /\ Has("warning_noload") <=> Len(df.rows) = 0
        /\ Has("info_waiting") <=> (Len(df.rows) > 0 /\ search_query = <<>>)
        /\ Has("warning_noresults") <=>
               (Len(df.rows) > 0 /\ search_query # <<>> /\ MatchedPositions = {})
        /\ Has("expander") <=>
               (Len(df.rows) > 0 /\ search_query # <<>> /\ MatchedPositions # {})
        /\ Cardinality({name \in {"warning_noload", "info_waiting", "warning_noresults",
                                  "expander"} : Has(name)}) = 1
        /\ Has("expander") =>
               /\ Elements("subheader") = <<El("subheader", Cardinality(MatchedPositions))>>
               /\ Len(Elements("expander")) = Cardinality(MatchedPositions)
               /\ \A j \in 1..Len(Elements("expander")) :
                      Elements("expander")[j].arg + 1 \in MatchedPositions
               /\ \A i, j \in 1..Len(Elements("expander")) :
                      i < j => Elements("expander")[i].arg < Elements("expander")[j].arg

\* C9 witness: a finished run on a table fetched with success and without
\* rows shows the could-not-load warning.
C9_Witness ==
    /\ pc = "done" /\ df.cols /\ Len(df.rows) = 0 /\ Has("warning_noload")

\* C10 as stated: a run that selects a location whose fetch has failed in an
\* earlier run gets the empty table from the cache without a fetch, and its
\* load writes no error message.
C10_FailedLoadCachedSilently ==
    [][(pc = "load" /\ selected_gid \in failed) =>
          /\ ~ran_body'
          /\ cache' = cache
          /\ df'.rows = <<>>
          /\ \A k \in 1..Len(screen') : screen'[k].el # "error_load"]_vars

\* C10 amended: such a run gets the empty table from the cache without a
\* fetch, whatever the sheet would deliver now, and the error message written
\* by the failed call is shown again by the cache, before the could-not-load
\* warning.
C10_FailedLoadCachedAndReplayed ==
    /\ [][(pc = "load" /\ selected_gid \in failed) =>
            /\ ~ran_body'
            /\ cache' = cache
            /\ df'.rows = <<>> /\ ~df'.cols
            /\ screen' = <<El("error_load", 0), El("info_verify", 0)>>]_vars
    /\ []((pc = "done" /\ selected_gid \in failed) =>
            screen = <<El("error_load", 0), El("info_verify", 0), El("warning_noload", 0)>>)

\* C10 witness: a finished run that was served the failed load from the cache.
C10_Witness ==
    /\ pc = "done" /\ ~ran_body /\ selected_gid \in failed
    /\ Has("error_load") /\ Has("warning_noload")

====
